---- MODULE Spec2Model ----
(***************************************************************************)
(* State-machine model of the cache-freshness / regeneration coordinator   *)
(* of zendocs-zenai-backend: POST /zen-ai (Request Coordinator and the     *)
(* fire-and-forget Regeneration Job), generateAndUpsert, the mirror        *)
(* writers, and the Bulk Repopulator with its concurrency limiter.         *)
(*                                                                         *)
(* Time is counted in seconds (the code counts milliseconds; the factor    *)
(* 1000 is dropped on both sides of every comparison).                     *)
(***************************************************************************)
EXTENDS Integers, Sequences, FiniteSets, TLC

\* ------------------------------------------------------------------ bounds
MaxTicks == 1          \* clock advances per behaviour
MaxConcurrency == 2    \* largest `concurrency` a bulk run is given
MaxRows == 3           \* largest stale-row result a bulk run is given
MaxSettled == 11       \* largest number of settled jobs a summary is built from

\* --------------------------------------------------------------- constants
DaySeconds == 24 * 60 * 60
DefaultDays == 30
StartTime == 100 * DaySeconds      \* the clock at the first state, far from the epoch
ErrorPreview == 10                  \* errors.slice(0, 10)
NoTime == 0 - 1                      \* a null timestamp column
NULL == "null"                     \* a null text column
Undefined == "<undefined>"         \* an absent header, an unset environment variable
Absent == "<absent>"               \* a field the generator's JSON leaves out
NotAString == "<not a string>"     \* a field value that is neither a string nor null

\* The five-field Request Key.
KeyJP ==
  [resident_country |-> "US", nationality |-> "US", destination |-> "JP",
   visa_category |-> "Tourism", visa_type |-> "eVisa"]
KeyDE ==
  [resident_country |-> "US", nationality |-> "US", destination |-> "DE",
   visa_category |-> "Tourism", visa_type |-> "eVisa"]
KeyFR ==
  [resident_country |-> "US", nationality |-> "US", destination |-> "FR",
   visa_category |-> "Tourism", visa_type |-> "eVisa"]
Keys == {KeyJP, KeyFR, KeyDE}
\* res_nat_dest_cat_type as sent by the client.
DocIds == {"docJP", "docFR"}
Providers == {"openai"}
\* The keys POST /zen-ai is asked for: requests race on one Record Store row.
ReqKeys == {KeyJP}
Reqs == {"r1", "r2"}
Deltas == {DefaultDays * DaySeconds - 1, DefaultDays * DaySeconds}

\* What the Content Generator can return after OutputSchema.parse: the
\* generated attributes, reduced to visa_description (the completeness
\* attribute, the one stored in the model's rows) and visa_details (the
\* attribute hasPostArrival reads).
Payloads ==
  [visa_description : {NULL, "desc"}, visa_details : {"plain", "after you arrive"}]

VARIABLES env, now, ticks, store, mirror, req, lastWrite, held, bulk

vars == <<env, now, ticks, store, mirror, req, lastWrite, held, bulk>>

\* ------------------------------------------------------------ Record Store
EmptyRow ==
  [status |-> NULL, res_nat_dest_cat_type |-> NULL, visa_description |-> NULL,
   source |-> NULL, last_updated |-> NoTime, updated_at |-> NoTime]

\* A merge that appends a text column to the stored text instead of replacing it.
MergeAppending(row, cols) ==
  [f \in DOMAIN row |->
     IF f \notin DOMAIN cols THEN row[f]
     ELSE IF f = "visa_description" /\ row[f] # NULL /\ cols[f] # NULL
       THEN row[f] \o cols[f]
     ELSE cols[f]]

Merge(row, cols) ==
  [f \in DOMAIN row |-> IF f \in DOMAIN cols THEN cols[f] ELSE row[f]]

\* supabase.from(...).upsert(cols, {onConflict: <the five key columns>})
upsert(st, k, cols) ==
  [x \in (DOMAIN st) \cup {k} |->
     IF x = k
       THEN Merge(IF k \in DOMAIN st THEN st[k] ELSE EmptyRow, cols)
       ELSE st[x]]

\* supabase.from(...).update(cols).match(baseKey)
update(st, k, cols) ==
  IF k \in DOMAIN st THEN [st EXCEPT ![k] = Merge(st[k], cols)] ELSE st

\* The statuses each row has held so far (history of the status column).
heldAfter(st) ==
  [k \in Keys |-> held[k] \cup (IF k \in DOMAIN st THEN {st[k].status} ELSE {})]

\* new Date(iso).getTime(): a null column reads as the epoch.
getTime(iso) == IF iso = NoTime THEN 0 ELSE iso

\* isFresh counting a record aged exactly the threshold as fresh.
isFreshInclusive(iso, days) == now - getTime(iso) <= days * DaySeconds

\* isFresh with the comparison turned round.
isFreshInverted(iso, days) == now - getTime(iso) > days * DaySeconds

isFresh(iso, days) == now - getTime(iso) < days * DaySeconds

\* ------------------------------------------------------------ Mirror Store
NoKey ==
  [resident_country |-> "", nationality |-> "", destination |-> "",
   visa_category |-> "", visa_type |-> ""]
NoDoc == [status |-> NULL, visa_description |-> NULL, key |-> NoKey]

\* The status write that sets the key fields and leaves the status out.
mirrorVisaStatusKeyOnly(m, docId, status, base) ==
  [m EXCEPT ![docId] = [@ EXCEPT !.key = base]]

\* doc(docId).set({...base, status, ...}, {merge: true})
mirrorVisaStatus(m, docId, status, base) ==
  [m EXCEPT ![docId] = [@ EXCEPT !.status = status, !.key = base]]

\* doc(docId).set({...data, status: "ready", ...}, {merge: true})
mirrorVisaPayload(m, docId, data, base) ==
  [m EXCEPT ![docId] =
     [status |-> "ready", visa_description |-> data.visa_description, key |-> base]]

\* ----------------------------------------------------- Request Coordinator
NoExisting ==
  [found |-> FALSE, last_updated |-> NoTime, status |-> NULL,
   res_nat_dest_cat_type |-> NULL, visa_description |-> NULL]
NoPayload == [visa_description |-> NULL, visa_details |-> NULL]
NoBody == [ok |-> FALSE]

\* ------------------------------------------------------------- environment
\* What the collaborators can do in a behaviour. faults names the calls that
\* may fail: "mirror" (a Mirror Store write), "store" (a Record Store call whose
\* error the caller does not read: the lookup, the placeholder upsert and the
\* status updates), "upsert" (the content upsert of generateAndUpsert). serial
\* says that a request arrives only once the one before it and its job have
\* finished. fixed says that the Content Generator is deterministic: its first
\* call always yields `first` and its refinement call always yields `refine`.
Faults == {"mirror", "store", "upsert"}

\* The outcomes of a call: TRUE (done) and, if the behaviour admits the fault,
\* FALSE (failed).
may(fault) == IF fault \in env.faults THEN BOOLEAN ELSE {TRUE}

\* The JSON a provider call can resolve to: the payloads, an object that leaves
\* visa_description out, and an object whose visa_description is not a string.
Replies ==
  Payloads \cup {[visa_description |-> Absent, visa_details |-> "after you arrive"],
                 [visa_description |-> NotAString, visa_details |-> "after you arrive"]}

\* The outcomes of a Content Generator call: it resolves to a reply, or none
\* (the call throws).
Thrown == [ok |-> FALSE, payload |-> NoPayload]
Outcomes == [ok : {TRUE}, payload : Replies] \cup {Thrown}

\* A schema that lets every field value through.
parseAny(result) ==
  [ok |-> TRUE,
   payload |-> [f \in DOMAIN result |-> IF result[f] = Absent THEN NULL ELSE result[f]]]

\* OutputSchema.parse(result): every field is z.string().nullable().default(null);
\* a field left out reads null, a field of another type makes parse throw.
parse(result) ==
  IF \E f \in DOMAIN result : result[f] = NotAString THEN Thrown
  ELSE [ok |-> TRUE,
        payload |-> [f \in DOMAIN result |-> IF result[f] = Absent THEN NULL ELSE result[f]]]

\* What generateAndUpsert makes of a call: the parsed payload, or a failure.
parsed(o) == IF o.ok THEN parse(o.payload) ELSE Thrown

generated(call) == IF env.fixed THEN {env[call]} ELSE Outcomes

\* Concurrent requests, a free generator, mirror writes and content upserts
\* that may fail. secret is process.env.CRON_SECRET.
Racing ==
  [faults |-> {"mirror", "upsert"}, serial |-> FALSE, fixed |-> FALSE,
   first |-> Thrown, refine |-> Thrown, secret |-> "s1"]

\* mirror.ts: try { await db...set(...) } catch (e) { console.error(...) }
\* The mirror writer letting its failure out.
mirrorSettlesRethrow(landed) == IF landed THEN "resolved" ELSE "rejected"

\* The promise of mirrorVisaStatus / mirrorVisaPayload resolves whether or not
\* the write landed.
mirrorSettles(landed) == "resolved"

\* select("last_updated,status,res_nat_dest_cat_type,visa_description").match(baseKey).maybeSingle()
selectExisting(st, k) ==
  IF k \in DOMAIN st
    THEN [found |-> TRUE, last_updated |-> st[k].last_updated, status |-> st[k].status,
          res_nat_dest_cat_type |-> st[k].res_nat_dest_cat_type,
          visa_description |-> st[k].visa_description]
    ELSE NoExisting

isComplete(existing, docId) ==
  /\ existing.found
  /\ existing.res_nat_dest_cat_type # NULL
  /\ existing.visa_description # NULL
  /\ existing.res_nat_dest_cat_type = docId

fresh(existing, docId, force_refresh) ==
  /\ existing.found
  /\ isFresh(existing.last_updated, DefaultDays)
  /\ ~force_refresh
  /\ isComplete(existing, docId)

\* nextStatus with the "exists" test ahead of the "incomplete" test.
nextStatusExistsFirst(existing, docId, force_refresh) ==
  IF fresh(existing, docId, force_refresh) THEN "ready"
  ELSE IF force_refresh /\ existing.found /\ existing.status = "error" THEN "processing"
  ELSE IF existing.found THEN "refreshing"
  ELSE "queued"

nextStatus(existing, docId, force_refresh) ==
  IF fresh(existing, docId, force_refresh) THEN "ready"
  ELSE IF force_refresh /\ existing.found /\ existing.status = "error" THEN "processing"
  ELSE IF existing.found /\ ~isComplete(existing, docId) THEN "processing"
  ELSE IF existing.found THEN "refreshing"
  ELSE "queued"

\* launchJob without the !fresh disjunct.
launchJobNoFresh(isFreshV, force_refresh, found, complete) ==
  force_refresh \/ (found /\ ~complete)

\* if (!fresh || force_refresh || (existing && !isComplete))
launchJob(isFreshV, force_refresh, found, complete) ==
  ~isFreshV \/ force_refresh \/ (found /\ ~complete)

IdleBulk ==
  [pc |-> "idle", trigger |-> "none", header |-> Undefined, queryErr |-> FALSE,
   variant |-> "none", concurrency |-> 0, combos |-> <<>>,
   dup |-> FALSE, distinct |-> 0, active |-> 0, q |-> <<>>, jst |-> <<>>, pay |-> <<>>,
   launched |-> <<>>, summary |-> [requested |-> 0, refreshed |-> 0, failed |-> 0, errors |-> <<>>]]

IdleReq ==
  [pc |-> "idle", key |-> KeyJP, docId |-> "docJP", force_refresh |-> FALSE,
   provider |-> "openai", nowISO |-> NoTime, existing |-> NoExisting,
   inWindow |-> FALSE, complete |-> FALSE, fresh |-> FALSE, nextStatus |-> NULL,
   code |-> 0, body |-> NoBody, jpc |-> "none", payload |-> NoPayload, genCalls |-> 0,
   launched |-> 0, wrote |-> FALSE, lookupErr |-> FALSE, placeholderErr |-> FALSE,
   updateErr |-> FALSE]

\* The state right after the process has started: an empty table, no request.
Boot ==
  /\ now = StartTime
  /\ ticks = 0
  /\ store = [k \in {} |-> EmptyRow]
  /\ mirror = [d \in DocIds |-> NoDoc]
  /\ req = [r \in Reqs |-> IdleReq]
  /\ lastWrite = "none"
  /\ held = [k \in Keys |-> {}]
  /\ bulk = IdleBulk

Init == env = Racing /\ Boot

Tick ==
  /\ ticks < MaxTicks
  /\ \E d \in Deltas : now' = now + d
  /\ ticks' = ticks + 1
  /\ UNCHANGED <<env, store, mirror, req, lastWrite, held, bulk>>

\* The fields the handler requires of the body, in the order it tests them.
Required ==
  <<"resident_country", "nationality", "destination", "visa_category", "visa_type",
    "res_nat_dest_cat_type">>

\* The JSON body of a request: the five key fields and res_nat_dest_cat_type; a
\* field that is absent or empty reads "".
bodyOf(k, d) ==
  [resident_country |-> k.resident_country, nationality |-> k.nationality,
   destination |-> k.destination, visa_category |-> k.visa_category,
   visa_type |-> k.visa_type, res_nat_dest_cat_type |-> d]

baseKeyOf(b) ==
  [resident_country |-> b.resident_country, nationality |-> b.nationality,
   destination |-> b.destination, visa_category |-> b.visa_category,
   visa_type |-> b.visa_type]

Bodies ==
  {bodyOf(k, d) : k \in ReqKeys, d \in DocIds}
    \cup {[bodyOf(k, "docJP") EXCEPT ![Required[i]] = ""] :
            k \in ReqKeys, i \in 1..Len(Required)}

\* The validation loop with visa_type left out of the list.
missingFieldsShortList(b) ==
  {i \in 1..Len(Required) : b[Required[i]] = "" /\ Required[i] # "visa_type"}

\* for (const f of [...]) if (!req.body?.[f]) return res.status(400)...
missingFields(b) == {i \in 1..Len(Required) : b[Required[i]] = ""}

firstMissing(b) ==
  Required[CHOOSE i \in missingFields(b) : \A j \in missingFields(b) : i <= j]

\* app.post("/zen-ai"): the body is destructured and validated; a body that
\* lacks a field is answered 400 at once, otherwise nowISO is taken and the
\* lookup is issued.
Receive(r) ==
  /\ req[r].pc = "idle"
  /\ r = "r2" => req["r1"].pc # "idle"       \* requests are numbered in arrival order
  /\ env.serial =>
       \A o \in Reqs \ {r} :
         req[o].pc \in {"idle", "done", "rejected"} /\ req[o].jpc \in {"none", "done", "failed"}
  /\ \E b \in Bodies, f \in BOOLEAN, p \in Providers :
       \* document ids are interchangeable: the first request names one
       /\ r = "r1" => b.res_nat_dest_cat_type \in {"docJP", ""}
       /\ req' = [req EXCEPT ![r] =
                 IF missingFields(b) # {}
                   THEN [@ EXCEPT !.pc = "rejected", !.key = baseKeyOf(b),
                                  !.docId = b.res_nat_dest_cat_type, !.code = 400,
                                  !.body = [error |-> "Missing field: " \o firstMissing(b)]]
                   ELSE [@ EXCEPT !.pc = "lookup", !.key = baseKeyOf(b),
                                  !.docId = b.res_nat_dest_cat_type,
                                  !.force_refresh = f, !.provider = p, !.nowISO = now]]
  /\ UNCHANGED <<env, now, ticks, store, mirror, lastWrite, held, bulk>>

\* Observation for the properties: the age of the stored content at the lookup.
inWindow(last_updated) ==
  last_updated # NoTime /\ now - last_updated < DefaultDays * DaySeconds

\* The awaited lookup returns; isComplete, fresh and nextStatus are computed in
\* the same turn. Only `data` is read of the result: a lookup that failed reads
\* as no record.
Lookup(r) ==
  /\ req[r].pc = "lookup"
  /\ \E ok \in may("store") :
       LET ex == IF ok THEN selectExisting(store, req[r].key) ELSE NoExisting IN
       req' = [req EXCEPT ![r] =
                 [@ EXCEPT !.pc = "mirror", !.existing = ex, !.lookupErr = ~ok,
                           !.inWindow = inWindow(ex.last_updated),
                           !.complete = isComplete(ex, req[r].docId),
                           !.fresh = fresh(ex, req[r].docId, req[r].force_refresh),
                           !.nextStatus = nextStatus(ex, req[r].docId, req[r].force_refresh)]]
  /\ UNCHANGED <<env, now, ticks, store, mirror, lastWrite, held, bulk>>

\* await mirrorVisaStatus(res_nat_dest_cat_type, nextStatus, base): the write
\* lands, or it fails and the failure is logged inside mirrorVisaStatus.
CoordMirror(r) ==
  /\ req[r].pc = "mirror"
  /\ \E landed \in may("mirror") :
       /\ mirror' = IF landed
                      THEN mirrorVisaStatus(mirror, req[r].docId, req[r].nextStatus, req[r].key)
                      ELSE mirror
       /\ req' = [req EXCEPT ![r].pc =
                    IF mirrorSettles(landed) = "resolved" THEN "upsert" ELSE "crashed"]
  /\ UNCHANGED <<env, now, ticks, store, lastWrite, held, bulk>>

\* await supabase...upsert({...baseKey, res_nat_dest_cat_type, status, updated_at: nowISO})
\* The placeholder also stamping last_updated.
placeholderColsStamped(docId, status, nowISO) ==
  [res_nat_dest_cat_type |-> docId, status |-> status, updated_at |-> nowISO,
   last_updated |-> nowISO]

placeholderCols(docId, status, nowISO) ==
  [res_nat_dest_cat_type |-> docId, status |-> status, updated_at |-> nowISO]

\* The result of the upsert is not read: the handler goes on whether or not the
\* placeholder was stored.
CoordUpsert(r) ==
  /\ req[r].pc = "upsert"
  /\ \E ok \in may("store") :
       /\ store' = IF ok
                     THEN upsert(store, req[r].key,
                                 placeholderCols(req[r].docId, req[r].nextStatus, req[r].nowISO))
                     ELSE store
       /\ lastWrite' = IF ok THEN "placeholder" ELSE lastWrite
       /\ req' = [req EXCEPT ![r] = [@ EXCEPT !.pc = "respond", !.placeholderErr = ~ok]]
  /\ held' = heldAfter(store')
  /\ UNCHANGED <<env, now, ticks, mirror, bulk>>

\* The handler's position once the job has been started.
\* The handler awaiting the job it started before it responds.
afterLaunchAwaited(go) == IF go THEN "awaitJob" ELSE "done"

\* (async () => { ... })(): the job's promise is dropped, the handler goes on to
\* its return statement in the same turn.
afterLaunch(go) == "done"

\* The response with the stored description spread into the body.
responseBodyInline(status, baseKey) ==
  [ok |-> TRUE, status |-> status, resident_country |-> baseKey.resident_country,
   nationality |-> baseKey.nationality, destination |-> baseKey.destination,
   visa_category |-> baseKey.visa_category, visa_type |-> baseKey.visa_type,
   visa_description |-> "desc"]

\* res.status(fresh ? 200 : 202).json({ok: true, status: nextStatus, ...baseKey})
responseBody(status, baseKey) ==
  [ok |-> TRUE, status |-> status, resident_country |-> baseKey.resident_country,
   nationality |-> baseKey.nationality, destination |-> baseKey.destination,
   visa_category |-> baseKey.visa_category, visa_type |-> baseKey.visa_type]

responseCode(isFreshV) == IF isFreshV THEN 200 ELSE 202

\* The job is launched (the async function runs up to its first await) and the
\* response is sent in the same turn. The job reads `existing` only for its log
\* lines: under racing requests the model drops it here.
LaunchAndRespond(r) ==
  /\ req[r].pc = "respond"
  /\ LET go == launchJob(req[r].fresh, req[r].force_refresh,
                         req[r].existing.found, req[r].complete)
         at == afterLaunch(go) IN
     req' = [req EXCEPT ![r] =
               [@ EXCEPT !.pc = at, !.nowISO = NoTime,
                         !.existing = IF env.serial THEN @ ELSE NoExisting,
                         !.code = IF at = "done" THEN responseCode(req[r].fresh) ELSE @,
                         !.body = IF at = "done"
                                    THEN responseBody(req[r].nextStatus, req[r].key) ELSE @,
                         !.jpc = IF go THEN "mirrorProcessing" ELSE "none",
                         !.launched = IF go THEN @ + 1 ELSE @]]
  /\ UNCHANGED <<env, now, ticks, store, mirror, lastWrite, held, bulk>>

\* --------------------------------------------------------- Regeneration Job
\* await mirrorVisaStatus(res_nat_dest_cat_type, "processing", base)
JobMirrorProcessing(r) ==
  /\ req[r].jpc = "mirrorProcessing"
  /\ \E landed \in may("mirror") :
       /\ mirror' = IF landed
                      THEN mirrorVisaStatus(mirror, req[r].docId, "processing", req[r].key)
                      ELSE mirror
       /\ req' = [req EXCEPT ![r].jpc =
                    IF mirrorSettles(landed) = "resolved" THEN "storeProcessing"
                    ELSE "mirrorError"]
  /\ UNCHANGED <<env, now, ticks, store, lastWrite, held, bulk>>

\* await supabase...update({status: "processing", updated_at}).match(baseKey)
\* The processing update without its status column.
processingColsNoStatus(t) == [updated_at |-> t]

processingCols(t) == [status |-> "processing", updated_at |-> t]

JobStoreProcessing(r) ==
  /\ req[r].jpc = "storeProcessing"
  /\ \E ok \in may("store") :
       /\ store' = IF ok THEN update(store, req[r].key, processingCols(now)) ELSE store
       /\ lastWrite' = IF ok THEN "processing" ELSE lastWrite
       /\ req' = [req EXCEPT ![r] = [@ EXCEPT !.jpc = "generate", !.updateErr = @ \/ ~ok]]
  /\ held' = heldAfter(store')
  /\ UNCHANGED <<env, now, ticks, mirror, bulk>>

\* hasPostArrival(payload.visa_details): one of the markers occurs in the text.
hasPostArrival(text) == text = "after you arrive"

\* generateAndUpsert: the provider call returns a result that parses to a
\* payload, or it throws, or the result fails OutputSchema.parse.
JobGenerate(r) ==
  /\ req[r].jpc = "generate"
  /\ \E o \in generated("first") :
       LET p == parsed(o) IN
       req' = [req EXCEPT ![r] =
                 [@ EXCEPT !.genCalls = @ + 1,
                           !.payload = IF p.ok THEN p.payload ELSE @,
                           !.jpc = IF ~p.ok THEN "mirrorError"
                                   ELSE IF hasPostArrival(p.payload.visa_details)
                                     THEN "upsert" ELSE "refine"]]
  /\ UNCHANGED <<env, now, ticks, store, mirror, lastWrite, held, bulk>>

\* The one-shot refinement call: its parsed result replaces the payload; if it
\* throws or does not parse, the original payload is kept.
JobRefine(r) ==
  /\ req[r].jpc = "refine"
  /\ \E o \in generated("refine") :
       LET p == parsed(o) IN
       req' = [req EXCEPT ![r] =
                 [@ EXCEPT !.genCalls = @ + 1,
                           !.payload = IF p.ok THEN p.payload ELSE @,
                           !.jpc = "upsert"]]
  /\ UNCHANGED <<env, now, ticks, store, mirror, lastWrite, held, bulk>>

\* The row generateAndUpsert upserts: {...combo, ...payload, raw_json, source, last_updated}
contentRow(docId, payload, provider, t) ==
  [res_nat_dest_cat_type |-> docId,
   visa_description |-> payload.visa_description,
   source |-> provider, last_updated |-> t]

\* The upsert is stored and returned, or it fails and upErr is thrown.
JobUpsert(r) ==
  /\ req[r].jpc = "upsert"
  /\ \E ok \in may("upsert") :
       /\ store' = IF ok
                     THEN upsert(store, req[r].key,
                                 contentRow(req[r].docId, req[r].payload, req[r].provider, now))
                     ELSE store
       /\ lastWrite' = IF ok THEN "content" ELSE lastWrite
       /\ req' = [req EXCEPT ![r] =
                    [@ EXCEPT !.jpc = IF ok THEN "mirrorPayload" ELSE "mirrorError",
                              !.wrote = IF ok THEN TRUE ELSE @,
                              !.payload = NoPayload]]
  /\ held' = heldAfter(store')
  /\ UNCHANGED <<env, now, ticks, mirror, bulk>>

\* await mirrorVisaPayload(res_nat_dest_cat_type, {...up, res_nat_dest_cat_type, source, last_updated})
JobMirrorPayload(r) ==
  /\ req[r].jpc = "mirrorPayload"
  /\ \E landed \in may("mirror") :
       /\ mirror' = IF landed
                      THEN mirrorVisaPayload(mirror, req[r].docId, store[req[r].key], req[r].key)
                      ELSE mirror
       /\ req' = [req EXCEPT ![r].jpc =
                    IF mirrorSettles(landed) = "resolved" THEN "storeReady" ELSE "mirrorError"]
  /\ UNCHANGED <<env, now, ticks, store, lastWrite, held, bulk>>

\* await supabase...update({status: "ready", updated_at, last_updated}).match(baseKey)
readyCols(t) == [status |-> "ready", updated_at |-> t, last_updated |-> t]

JobStoreReady(r) ==
  /\ req[r].jpc = "storeReady"
  /\ \E ok \in may("store") :
       /\ store' = IF ok THEN update(store, req[r].key, readyCols(now)) ELSE store
       /\ lastWrite' = IF ok THEN "ready" ELSE lastWrite
       /\ req' = [req EXCEPT ![r] = [@ EXCEPT !.jpc = "done", !.updateErr = @ \/ ~ok]]
  /\ held' = heldAfter(store')
  /\ UNCHANGED <<env, now, ticks, mirror, bulk>>

\* catch: await mirrorVisaStatus(res_nat_dest_cat_type, "error", base)
JobMirrorError(r) ==
  /\ req[r].jpc = "mirrorError"
  /\ \E landed \in may("mirror") :
       /\ mirror' = IF landed
                      THEN mirrorVisaStatus(mirror, req[r].docId, "error", req[r].key)
                      ELSE mirror
       /\ req' = [req EXCEPT ![r].jpc =
                    IF mirrorSettles(landed) = "resolved" THEN "storeError" ELSE "crashed"]
  /\ UNCHANGED <<env, now, ticks, store, lastWrite, held, bulk>>

\* catch: await supabase...update({status: "error", updated_at}).match(baseKey)
\* The error update also stamping last_updated, as the ready update does.
errorColsStamped(t) == [status |-> "error", updated_at |-> t, last_updated |-> t]

errorCols(t) == [status |-> "error", updated_at |-> t]

JobStoreError(r) ==
  /\ req[r].jpc = "storeError"
  /\ \E ok \in may("store") :
       /\ store' = IF ok THEN update(store, req[r].key, errorCols(now)) ELSE store
       /\ lastWrite' = IF ok THEN "error" ELSE lastWrite
       /\ req' = [req EXCEPT ![r] = [@ EXCEPT !.jpc = "failed", !.updateErr = @ \/ ~ok]]
  /\ held' = heldAfter(store')
  /\ UNCHANGED <<env, now, ticks, mirror, bulk>>

Next ==
  \/ Tick
  \/ \E r \in Reqs : Receive(r)
  \/ \E r \in Reqs : Lookup(r)
  \/ \E r \in Reqs : CoordMirror(r)
  \/ \E r \in Reqs : CoordUpsert(r)
  \/ \E r \in Reqs : LaunchAndRespond(r)
  \/ \E r \in Reqs : JobMirrorProcessing(r)
  \/ \E r \in Reqs : JobStoreProcessing(r)
  \/ \E r \in Reqs : JobGenerate(r)
  \/ \E r \in Reqs : JobRefine(r)
  \/ \E r \in Reqs : JobUpsert(r)
  \/ \E r \in Reqs : JobMirrorPayload(r)
  \/ \E r \in Reqs : JobStoreReady(r)
  \/ \E r \in Reqs : JobMirrorError(r)
  \/ \E r \in Reqs : JobStoreError(r)

Spec == Init /\ [][Next]_vars

\* Concurrent requests and a free generator, every mirror and store write
\* succeeding.
InitRace == env = [Racing EXCEPT !.faults = {}] /\ Boot

SpecRace == InitRace /\ [][Next]_vars

\* Requests that arrive one after the other, against a deterministic Content
\* Generator, under each combination of collaborator faults.
\* The refinement call is made only after a first result that parses and lacks
\* the post-arrival paragraph: otherwise its outcome is left at Thrown.
SerialEnvs ==
  {e \in [faults : {{}} \cup {{f} : f \in Faults}, serial : {TRUE}, fixed : {TRUE},
          first : Outcomes, refine : Outcomes, secret : {"s1"}] :
     (~parsed(e.first).ok \/ hasPostArrival(parsed(e.first).payload.visa_details))
       => e.refine = Thrown}

InitSerial == env \in SerialEnvs /\ Boot

SpecSerial == InitSerial /\ [][Next]_vars

\* Every awaited call returns and its continuation runs: the event loop is fair
\* to each step of a handler and of a job. The arrival of a request and the
\* passing of time are the environment's.
Steps(r) ==
  \/ Lookup(r) \/ CoordMirror(r) \/ CoordUpsert(r) \/ LaunchAndRespond(r)
  \/ JobMirrorProcessing(r) \/ JobStoreProcessing(r) \/ JobGenerate(r) \/ JobRefine(r)
  \/ JobUpsert(r) \/ JobMirrorPayload(r) \/ JobStoreReady(r)
  \/ JobMirrorError(r) \/ JobStoreError(r)

SpecSerialFair == SpecSerial /\ \A r \in Reqs : WF_vars(Steps(r))

\* ----------------------------------------------------------- Bulk Repopulator
\* A run is either repopulateStale (the shared function behind POST /repopulate
\* and the cron job, with its own limiter) or the stand-alone POST /repopulate
\* handler (with the module-level pLimit).
Variants == {"repopulateStale", "repopulate"}

\* key(r): the five key fields joined with "|"
key(r) ==
  r.key.resident_country \o "|" \o r.key.nationality \o "|" \o r.key.destination
    \o "|" \o r.key.visa_category \o "|" \o r.key.visa_type

\* for (const r of stale) map.set(key(r), r); combos = Array.from(map.values()):
\* a key keeps the position of its first row and the value of its last row.
RECURSIVE mapSet(_, _)
mapSet(m, rows) ==
  IF rows = <<>> THEN m
  ELSE LET r == Head(rows)
           hit == {i \in 1..Len(m) : key(m[i]) = key(r)}
       IN mapSet(IF hit = {} THEN Append(m, r)
                 ELSE [m EXCEPT ![CHOOSE i \in hit : TRUE] = r], Tail(rows))

dedupe(stale) == mapSet(<<>>, stale)

\* run(): active++; fn() is called and generateAndUpsert awaits the provider.
run(b, i) ==
  [b EXCEPT !.active = @ + 1, !.jst[i] = "gen", !.launched[i] = @ + 1]

\* pLimit of repopulateStale: active < n ? run() : q.shift()?.()
limitRun(b, i) ==
  IF b.active < b.concurrency THEN run(b, i)
  ELSE IF b.q # <<>> THEN run([b EXCEPT !.q = Tail(@)], Head(b.q))
  ELSE b

\* The module-level pLimit admitting one job too many.
limitFnOffByOne(b, i) ==
  IF b.active <= b.concurrency THEN run(b, i)
  ELSE [b EXCEPT !.q = Append(@, i), !.jst[i] = "queued"]

\* The module-level pLimit queueing at the head: queue.unshift(run).
limitFnLifo(b, i) ==
  IF b.active < b.concurrency THEN run(b, i)
  ELSE [b EXCEPT !.q = <<i>> \o @, !.jst[i] = "queued"]

\* module-level pLimit: if (active < concurrency) run(); else queue.push(run)
limitFn(b, i) ==
  IF b.active < b.concurrency THEN run(b, i)
  ELSE [b EXCEPT !.q = Append(@, i), !.jst[i] = "queued"]

submit(b, i) == IF b.variant = "repopulateStale" THEN limitRun(b, i) ELSE limitFn(b, i)

\* combos.map(...): every job is handed to the limiter in the same turn.
RECURSIVE fanOut(_, _)
fanOut(b, i) == IF i > Len(b.combos) THEN b ELSE fanOut(submit(b, i), i + 1)

\* next(): active--; the head of the queue, if any, is run.
next(b) ==
  LET b1 == [b EXCEPT !.active = @ - 1] IN
  IF b1.q # <<>> THEN run([b1 EXCEPT !.q = Tail(@)], Head(b1.q)) ELSE b1

\* The values of the x-cron-secret header and of process.env.CRON_SECRET.
Secrets == {Undefined, "s1"}
Headers == {Undefined, "s1", "s2"}

\* if (req.headers["x-cron-secret"] !== process.env.CRON_SECRET) return res.status(401)...
authorized(header, secret) == ~(header # secret)

\* app.post("/repopulate"): the request is answered 401, or the handler reads
\* its parameters and issues the stale-row query (through repopulateStale, or
\* in the stand-alone handler).
Repopulate ==
  /\ bulk.pc = "idle"
  /\ \E h \in Headers, v \in Variants :
       bulk' = IF authorized(h, env.secret)
                 THEN [bulk EXCEPT !.pc = "query", !.trigger = "http", !.header = h,
                                   !.variant = v]
                 ELSE [bulk EXCEPT !.pc = "unauthorized", !.trigger = "http", !.header = h]
  /\ UNCHANGED <<env, now, ticks, store, mirror, req, lastWrite, held>>

\* cron.schedule(cronExpr, ...): the internal schedule calls repopulateStale.
Cron ==
  /\ bulk.pc = "idle"
  /\ bulk' = [bulk EXCEPT !.pc = "query", !.trigger = "cron", !.variant = "repopulateStale"]
  /\ UNCHANGED <<env, now, ticks, store, mirror, req, lastWrite, held>>

\* Rows older than the cutoff: .lt("last_updated", cutoffISO)
staleKeys(st, days) ==
  {k \in DOMAIN st :
     st[k].last_updated # NoTime /\ st[k].last_updated < now - days * DaySeconds}

\* const concurrency = Number(req.body?.concurrency ?? 3): any number the body
\* carries is taken as it is, zero and negative numbers included.
Concurrencies == (0 - 1)..MaxConcurrency

\* The stale-row query returns: it fails, or it yields rows of stale keys (in
\* the store's order, a key possibly more than once under different
\* res_nat_dest_cat_type values), which are deduplicated and fanned out.
BulkStart ==
  /\ bulk.pc = "query"
  /\ \E n \in Concurrencies, len \in 0..MaxRows :
     \E stale \in [1..len -> [key : staleKeys(store, DefaultDays), res_nat_dest_cat_type : DocIds]] :
       LET combos == dedupe(stale)
           b0 == [bulk EXCEPT !.concurrency = n, !.combos = combos,
                    !.dup = Len(combos) < len,
                    !.distinct = Cardinality({stale[i].key : i \in 1..len}),
                    !.jst = [i \in 1..Len(combos) |-> "unscheduled"],
                    !.pay = [i \in 1..Len(combos) |-> NoPayload],
                    !.launched = [i \in 1..Len(combos) |-> 0]]
       IN bulk' = IF len = 0 THEN [b0 EXCEPT !.pc = "done"]
                  ELSE [fanOut(b0, 1) EXCEPT !.pc = "running"]
  /\ UNCHANGED <<env, now, ticks, store, mirror, req, lastWrite, held>>

\* if (error) throw error
BulkQueryFail ==
  /\ bulk.pc = "query"
  /\ bulk' = [bulk EXCEPT !.pc = "failed", !.queryErr = TRUE]
  /\ UNCHANGED <<env, now, ticks, store, mirror, req, lastWrite, held>>

\* A job's rejection aborting the whole run.
settleAborting(b, i, ok) ==
  IF ok
    THEN [next(b) EXCEPT !.jst[i] =
            IF b.variant = "repopulateStale" THEN "mirrorPayload" ELSE "fulfilled"]
    ELSE [next(b) EXCEPT !.jst[i] = "rejected", !.pc = "failed"]

\* fn() settles: resolve/reject, then next(); repopulateStale goes on to its
\* mirror write, the stand-alone handler's job is settled.
settle(b, i, ok) ==
  [next(b) EXCEPT !.jst[i] =
     IF b.variant = "repopulateStale"
       THEN (IF ok THEN "mirrorPayload" ELSE "mirrorError")
       ELSE (IF ok THEN "fulfilled" ELSE "rejected")]

\* generateAndUpsert in a bulk job: the provider call returns or throws.
BulkGenerate(i) ==
  /\ bulk.pc = "running"
  /\ i \in 1..Len(bulk.combos)
  /\ bulk.jst[i] = "gen"
  /\ \/ \E p \in Payloads :
          bulk' = [bulk EXCEPT !.pay[i] = p,
                     !.jst[i] = IF hasPostArrival(p.visa_details) THEN "upsert" ELSE "refine"]
     \/ bulk' = settle(bulk, i, FALSE)
  /\ UNCHANGED <<env, now, ticks, store, mirror, req, lastWrite, held>>

BulkRefine(i) ==
  /\ bulk.pc = "running"
  /\ i \in 1..Len(bulk.combos)
  /\ bulk.jst[i] = "refine"
  /\ \/ \E p \in Payloads : bulk' = [bulk EXCEPT !.pay[i] = p, !.jst[i] = "upsert"]
     \/ bulk' = [bulk EXCEPT !.jst[i] = "upsert"]
  /\ UNCHANGED <<env, now, ticks, store, mirror, req, lastWrite, held>>

\* The upsert of generateAndUpsert returns the stored row, or upErr is thrown.
\* The stand-alone handler passes no res_nat_dest_cat_type.
BulkUpsert(i) ==
  /\ bulk.pc = "running"
  /\ i \in 1..Len(bulk.combos)
  /\ bulk.jst[i] = "upsert"
  /\ LET c == bulk.combos[i]
         full == contentRow(c.res_nat_dest_cat_type, bulk.pay[i], "openai", now)
         row == IF bulk.variant = "repopulateStale" THEN full
                ELSE [visa_description |-> full.visa_description,
                      source |-> full.source, last_updated |-> full.last_updated]
     IN \/ /\ store' = upsert(store, c.key, row)
           /\ lastWrite' = "content"
           /\ held' = heldAfter(store')
           /\ bulk' = [settle(bulk, i, TRUE) EXCEPT !.pay[i] = NoPayload]
        \/ /\ bulk' = [settle(bulk, i, FALSE) EXCEPT !.pay[i] = NoPayload]
           /\ UNCHANGED <<store, lastWrite, held>>
  /\ UNCHANGED <<env, now, ticks, mirror, req>>

\* await mirrorVisaPayload(row.res_nat_dest_cat_type, {...row, ...}); return row
BulkMirrorPayload(i) ==
  /\ bulk.pc = "running"
  /\ i \in 1..Len(bulk.combos)
  /\ bulk.jst[i] = "mirrorPayload"
  /\ LET c == bulk.combos[i] IN
     \E landed \in BOOLEAN :
       mirror' = IF landed
                   THEN mirrorVisaPayload(mirror, store[c.key].res_nat_dest_cat_type,
                                          store[c.key], c.key)
                   ELSE mirror
  /\ bulk' = [bulk EXCEPT !.jst[i] = "fulfilled"]
  /\ UNCHANGED <<env, now, ticks, store, req, lastWrite, held>>

\* catch: await mirrorVisaStatus(c.res_nat_dest_cat_type, "error", {...}); throw error
BulkMirrorError(i) ==
  /\ bulk.pc = "running"
  /\ i \in 1..Len(bulk.combos)
  /\ bulk.jst[i] = "mirrorError"
  /\ LET c == bulk.combos[i] IN
     \E landed \in BOOLEAN :
       mirror' = IF landed
                   THEN mirrorVisaStatus(mirror, c.res_nat_dest_cat_type, "error", c.key)
                   ELSE mirror
  /\ bulk' = [bulk EXCEPT !.jst[i] = "rejected"]
  /\ UNCHANGED <<env, now, ticks, store, req, lastWrite, held>>

\* Array.prototype.slice(0, n)
slice(s, n) == SubSeq(s, 1, IF Len(s) < n THEN Len(s) ELSE n)

\* Promise.allSettled resolves; the summary is built from the results.
errorsOf(b) ==
  LET idx == SelectSeq([i \in 1..Len(b.combos) |-> i], LAMBDA i : b.jst[i] = "rejected")
  IN [j \in 1..Len(idx) |-> b.combos[idx[j]].key]

summaryOf(b) ==
  [requested |-> Len(b.combos),
   refreshed |-> Cardinality({i \in 1..Len(b.combos) : b.jst[i] = "fulfilled"}),
   failed |-> Len(errorsOf(b)),
   errors |-> IF b.variant = "repopulate" THEN slice(errorsOf(b), ErrorPreview)
              ELSE errorsOf(b)]

BulkFinish ==
  /\ bulk.pc = "running"
  /\ \A i \in 1..Len(bulk.combos) : bulk.jst[i] \in {"fulfilled", "rejected"}
  /\ bulk' = [bulk EXCEPT !.pc = "done", !.summary = summaryOf(bulk)]
  /\ UNCHANGED <<env, now, ticks, store, mirror, req, lastWrite, held>>

\* A bulk run starts on a store whose rows were generated earlier: each key
\* holds a complete row, older or younger than the cutoff, left at ready by its
\* last job or (all of them) at error by a later refresh that failed.
BulkKeys == {KeyJP, KeyFR, KeyDE}
docOf(k) == IF k = KeyJP THEN "docJP" ELSE "docFR"
readyRow(k, t) ==
  [status |-> "ready", res_nat_dest_cat_type |-> docOf(k), visa_description |-> "desc",
   source |-> "openai", last_updated |-> t, updated_at |-> t]

InitBulk ==
  /\ env \in {[Racing EXCEPT !.secret = s] : s \in Secrets}
  /\ now = StartTime
  /\ ticks = 0
  /\ store \in {[k \in BulkKeys |-> [readyRow(k, t[k]) EXCEPT !.status = st]] :
                  t \in [BulkKeys -> {StartTime - DefaultDays * DaySeconds - 1,
                                      StartTime - 1}],
                  st \in {"ready", "error"}}
  /\ mirror = [d \in DocIds |-> NoDoc]
  /\ req = [r \in Reqs |-> IdleReq]
  /\ lastWrite = "none"
  /\ held = [k \in Keys |-> IF k \in DOMAIN store THEN {store[k].status} ELSE {}]
  /\ bulk = IdleBulk

NextBulk ==
  \/ Repopulate
  \/ Cron
  \/ BulkStart
  \/ BulkQueryFail
  \/ \E i \in 1..MaxRows : BulkGenerate(i)
  \/ \E i \in 1..MaxRows : BulkRefine(i)
  \/ \E i \in 1..MaxRows : BulkUpsert(i)
  \/ \E i \in 1..MaxRows : BulkMirrorPayload(i)
  \/ \E i \in 1..MaxRows : BulkMirrorError(i)
  \/ BulkFinish

SpecBulk == InitBulk /\ [][NextBulk]_vars

\* A bulk run on a store whose key fields are free text: two rows whose keys
\* differ in resident_country and nationality and contain the character "|",
\* next to a row of plain values, all three older than the cutoff.
KeyPipeLeft == [KeyJP EXCEPT !.resident_country = "US|CA", !.nationality = "GB"]
KeyPipeRight == [KeyJP EXCEPT !.resident_country = "US", !.nationality = "CA|GB"]
DedupeKeys == {KeyJP, KeyPipeLeft, KeyPipeRight}

InitDedupe ==
  /\ env \in {[Racing EXCEPT !.secret = s] : s \in Secrets}
  /\ now = StartTime
  /\ ticks = 0
  /\ store = [k \in DedupeKeys |-> readyRow(k, StartTime - DefaultDays * DaySeconds - 1)]
  /\ mirror = [d \in DocIds |-> NoDoc]
  /\ req = [r \in Reqs |-> IdleReq]
  /\ lastWrite = "none"
  /\ held = [k \in Keys |-> IF k \in DOMAIN store THEN {store[k].status} ELSE {}]
  /\ bulk = IdleBulk

SpecDedupe == InitDedupe /\ [][NextBulk]_vars

\* Every continuation that is ready to run does run: the event loop is fair
\* to each pending I/O completion.
SpecBulkFair ==
  /\ SpecBulk
  /\ WF_vars(BulkFinish)
  /\ \A i \in 1..MaxRows :
       /\ WF_vars(BulkGenerate(i)) /\ WF_vars(BulkRefine(i)) /\ WF_vars(BulkUpsert(i))
       /\ WF_vars(BulkMirrorPayload(i)) /\ WF_vars(BulkMirrorError(i))


\* ------------------------------------------------------ summary of a bulk run
\* The i-th deduplicated row of a large stale-row result: the keys differ in
\* their destination.
comboOf(i) ==
  [key |-> [KeyJP EXCEPT !.destination = "D" \o ToString(i)],
   res_nat_dest_cat_type |-> "docJP"]

\* The row of a key after its job: regenerated now, or left stale by a failure.
rowAfter(result) ==
  [status |-> "ready", res_nat_dest_cat_type |-> "docJP", visa_description |-> "desc",
   source |-> "openai",
   last_updated |-> IF result = "fulfilled" THEN StartTime
                    ELSE StartTime - DefaultDays * DaySeconds - 1,
   updated_at |-> StartTime - DefaultDays * DaySeconds - 1]

\* The point at which Promise.allSettled resolves: a run over n deduplicated
\* rows, n no larger than its concurrency, whose jobs have all settled, each
\* fulfilled or rejected.
InitSummary ==
  /\ env = Racing
  /\ now = StartTime
  /\ ticks = 0
  /\ mirror = [d \in DocIds |-> NoDoc]
  /\ req = [r \in Reqs |-> IdleReq]
  /\ lastWrite = "none"
  /\ held = [k \in Keys |-> {}]
  /\ \E n \in 1..MaxSettled, v \in Variants :
     \E results \in [1..n -> {"fulfilled", "rejected"}] :
       /\ store = [k \in {comboOf(i).key : i \in 1..n} |->
                     rowAfter(results[CHOOSE i \in 1..n : comboOf(i).key = k])]
       /\ bulk = [IdleBulk EXCEPT !.pc = "running", !.trigger = "cron", !.variant = v,
                    !.concurrency = n, !.combos = [i \in 1..n |-> comboOf(i)],
                    !.jst = results, !.pay = [i \in 1..n |-> NoPayload],
                    !.launched = [i \in 1..n |-> 1]]

NextSummary == BulkFinish

SpecSummary == InitSummary /\ [][NextSummary]_vars

\* ------------------------------------------------------------------ properties
\* The requests that have computed their status and still hold the lookup.
Decided == {r \in Reqs : req[r].pc \in {"mirror", "upsert", "respond"}}

\* The decision table of the Request Coordinator as written: first match wins,
\* "none" when no row matches.
tableStatus(found, recFresh, complete, force_refresh, status) ==
  IF recFresh /\ complete /\ ~force_refresh THEN "ready"
  ELSE IF force_refresh /\ status = "error" THEN "processing"
  ELSE IF found /\ ~complete THEN "processing"
  ELSE IF found /\ ~recFresh /\ complete THEN "refreshing"
  ELSE IF ~found THEN "queued"
  ELSE "none"

\* The table with its fourth row widened to every existing complete record
\* that no earlier row took (stale, or fresh and force-refreshed).
tableStatusAmended(found, recFresh, complete, force_refresh, status) ==
  IF recFresh /\ complete /\ ~force_refresh THEN "ready"
  ELSE IF force_refresh /\ status = "error" THEN "processing"
  ELSE IF found /\ ~complete THEN "processing"
  ELSE IF found /\ complete THEN "refreshing"
  ELSE "queued"

C2_JobIffNotReady ==
  \A r \in Reqs :
    /\ req[r].pc = "done" =>
         req[r].launched = (IF req[r].nextStatus = "ready" THEN 0 ELSE 1)
    /\ req[r].pc # "done" => req[r].launched = 0 /\ req[r].jpc = "none"
    /\ req[r].jpc # "none" => req[r].launched = 1

\* One answered request that launched a job and one that was ready and did not.
C2_Witness ==
  /\ \E r \in Reqs : req[r].pc = "done" /\ req[r].nextStatus = "ready" /\ req[r].launched = 0
  /\ \E r \in Reqs : req[r].pc = "done" /\ req[r].nextStatus = "queued" /\ req[r].launched = 1

inFlight == {i \in 1..Len(bulk.combos) : bulk.jst[i] \in {"gen", "refine", "upsert"}}
\* The jobs of the bulk run that have not been started.
waiting == {i \in 1..Len(bulk.combos) : bulk.jst[i] \in {"unscheduled", "queued"}}
\* The jobs of the bulk run that have settled.
settled == {i \in 1..Len(bulk.combos) : bulk.jst[i] \in {"fulfilled", "rejected"}}
\* Nothing of the bulk run is left that could take a step.
quiescent ==
  bulk.pc = "running" /\ \A i \in 1..Len(bulk.combos) : i \in waiting \cup settled

\* C5: during a bulk run with cap concurrency >= 1, the jobs started and not yet
\* settled never number more than concurrency.
C5_ConcurrencyBound ==
  (bulk.pc = "running" /\ bulk.concurrency >= 1) =>
    /\ Cardinality(inFlight) <= bulk.concurrency
    /\ bulk.active = Cardinality(inFlight)

\* More jobs than slots: the cap is reached while a job waits in the queue.
C5_Witness ==
  /\ bulk.pc = "running"
  /\ Len(bulk.combos) > bulk.concurrency
  /\ Cardinality(inFlight) = bulk.concurrency
  /\ \E i \in waiting : bulk.jst[i] = "queued"

\* C6: in a bulk run over N deduplicated rows with cap concurrency >= 1,
\* N > concurrency included, every
\* job is started as slots free and the run returns its summary: a free slot and
\* a job still waiting never coexist, and the run is never left with unsettled
\* jobs and nothing to run.
C6_EveryJobStarts ==
  (bulk.pc = "running" /\ bulk.concurrency >= 1) =>
    /\ bulk.active < bulk.concurrency => waiting = {}
    /\ ~(quiescent /\ waiting # {})

\* C7: the failure of a job leaves every other job to complete, and the summary
\* reports requested = N, refreshed = N - |F|, failed = |F| and one errors entry
\* per failed job, naming its key.
C7_FailureIsolation ==
  LET N == Len(bulk.combos)
      F == {i \in 1..N : bulk.jst[i] = "rejected"}
  IN /\ (quiescent /\ F # {}) => settled = 1..N
     /\ (bulk.pc = "done" /\ N > 0) =>
          /\ bulk.summary.requested = N
          /\ bulk.summary.refreshed = N - Cardinality(F)
          /\ bulk.summary.failed = Cardinality(F)
          /\ Len(bulk.summary.errors) = Cardinality(F)
          /\ {bulk.summary.errors[j] : j \in 1..Len(bulk.summary.errors)}
               = {bulk.combos[i].key : i \in F}

\* The number of jobs a bulk run has started for a key.
RECURSIVE sumLaunched(_, _)
sumLaunched(k, i) ==
  IF i = 0 THEN 0
  ELSE sumLaunched(k, i - 1)
         + (IF bulk.combos[i].key = k THEN bulk.launched[i] ELSE 0)

launchedFor(k) == sumLaunched(k, Len(bulk.combos))

\* C8: when the query result repeats a key, the run (with cap concurrency >= 1)
\* launches exactly one job for
\* that key (never two, and one once nothing more can start) and requested
\* counts the key once.
C8_OneJobPerKey ==
  (bulk.pc \in {"running", "done"} /\ bulk.dup /\ bulk.concurrency >= 1) =>
    \A i \in 1..Len(bulk.combos) :
      LET k == bulk.combos[i].key IN
      /\ launchedFor(k) <= 1
      /\ Cardinality({j \in 1..Len(bulk.combos) : bulk.combos[j].key = k}) = 1
      /\ (quiescent \/ bulk.pc = "done") => launchedFor(k) = 1
      /\ bulk.pc = "done" =>
           bulk.summary.requested = Cardinality({bulk.combos[j].key : j \in 1..Len(bulk.combos)})

\* C9: the failure path of a Regeneration Job writes only status = error and
\* updated_at: the failing job has stored no content, and its error write leaves
\* every other column of the row, last_updated included, as it was.
C9_FailureKeepsContent ==
  [][/\ \A r \in Reqs :
          req'[r].jpc \in {"mirrorError", "storeError", "failed"} => ~req'[r].wrote
     /\ (lastWrite' = "error" /\ store' # store) =>
          \A k \in DOMAIN store :
            store'[k] = [store[k] EXCEPT !.status = "error",
                                         !.updated_at = store'[k].updated_at]]_vars

\* A failed refresh of a row that holds generated content.
C9_Witness ==
  \E r \in Reqs :
    /\ req[r].jpc = "failed" /\ lastWrite = "error"
    /\ req[r].key \in DOMAIN store
    /\ store[req[r].key].status = "error"
    /\ store[req[r].key].visa_description = "desc"
    /\ store[req[r].key].last_updated # NoTime

\* C10: last_updated of a row changes only in a step of a Regeneration Job whose
\* generation succeeded (the content upsert or the ready update); the
\* placeholder, processing and error writes leave it unchanged.
C10_LastUpdatedOnlyOnSuccess ==
  [][\A k \in Keys :
       LET before == IF k \in DOMAIN store THEN store[k].last_updated ELSE NoTime
           after == IF k \in DOMAIN store' THEN store'[k].last_updated ELSE NoTime
       IN before # after =>
            \E r \in Reqs :
              /\ req[r].key = k /\ req[r].genCalls > 0
              /\ req[r].jpc \in {"upsert", "storeReady"}
              /\ req'[r].jpc # req[r].jpc]_vars

\* A placeholder written later than the content it leaves in place.
C10_Witness ==
  /\ lastWrite = "placeholder"
  /\ \E k \in DOMAIN store :
       /\ store[k].last_updated # NoTime
       /\ store[k].updated_at > store[k].last_updated

\* The five fields of the Request Key.
KeyFields == {"resident_country", "nationality", "destination", "visa_category", "visa_type"}

\* C11: a mirror write that fails is not propagated: after every mirror write,
\* landed or not, the Request Coordinator goes on to its placeholder write and
\* the Regeneration Job to the Record Store write that follows, and a request
\* is answered, its job launched and the job's store writes made as they are
\* when the mirror writes land.
C11_MirrorFailureNotPropagated ==
  [][\A r \in Reqs :
       /\ (req[r].pc = "mirror" /\ req'[r] # req[r]) =>
            req'[r] = [req[r] EXCEPT !.pc = "upsert"] /\ store' = store
       /\ (req[r].jpc = "mirrorProcessing" /\ req'[r] # req[r]) =>
            req'[r] = [req[r] EXCEPT !.jpc = "storeProcessing"] /\ store' = store
       /\ (req[r].jpc = "mirrorPayload" /\ req'[r] # req[r]) =>
            req'[r] = [req[r] EXCEPT !.jpc = "storeReady"] /\ store' = store
       /\ (req[r].jpc = "mirrorError" /\ req'[r] # req[r]) =>
            req'[r] = [req[r] EXCEPT !.jpc = "storeError"] /\ store' = store
       /\ req'[r].pc \in {"respond", "done"} => req'[r].key \in DOMAIN store'
       /\ req'[r].pc = "done" =>
            /\ req'[r].code \in {200, 202}
            /\ req'[r].launched = (IF req'[r].nextStatus = "ready" THEN 0 ELSE 1)
       /\ req'[r].jpc = "done" => "ready" \in held'[req'[r].key]
       /\ req'[r].jpc = "failed" => "error" \in held'[req'[r].key]]_vars

\* A job that has settled its row at ready while none of the mirror writes of
\* the run has landed.
C11_Witness ==
  \E r \in Reqs :
    /\ req[r].jpc = "done" /\ req[r].code = 202
    /\ \A d \in DocIds : mirror[d] = NoDoc
    /\ store[req[r].key].status = "ready"

\* C12: a request whose placeholder upsert failed is answered with a 5xx code,
\* never with 200 or 202.
C12_PlaceholderFailureSurfaced ==
  \A r \in Reqs :
    (req[r].pc = "done" /\ req[r].placeholderErr) =>
      req[r].code >= 500 /\ req[r].code \notin {200, 202}

\* C13: an answered request has code 200 exactly when its computed status is
\* ready and 202 otherwise, and the body of a 202 holds the status and the five
\* key fields (beside the ok flag) and no generated content.
C13_CodeAndBody ==
  \A r \in Reqs :
    req[r].pc = "done" =>
      /\ req[r].code = (IF req[r].nextStatus = "ready" THEN 200 ELSE 202)
      /\ req[r].code = 202 =>
           /\ DOMAIN req[r].body = {"ok", "status"} \cup KeyFields
           /\ req[r].body.status = req[r].nextStatus
           /\ \A f \in KeyFields : req[r].body[f] = req[r].key[f]

\* One request answered 202 and one answered 200.
C13_Witness ==
  /\ \E r \in Reqs : req[r].pc = "done" /\ req[r].code = 202 /\ req[r].nextStatus = "queued"
  /\ \E r \in Reqs : req[r].pc = "done" /\ req[r].code = 200 /\ req[r].nextStatus = "ready"

\* C14: a request answered 200 (the record is fresh) carries the stored record's
\* generated content in its body.
C14_FreshResponseInline ==
  \A r \in Reqs :
    (req[r].pc = "done" /\ req[r].code = 200) =>
      /\ "visa_description" \in DOMAIN req[r].body
      /\ req[r].key \in DOMAIN store
      /\ req[r].body.visa_description = store[req[r].key].visa_description

\* C15: the response of a request does not depend on the job it launched: it is
\* sent before any Content Generator call of the job has returned, and no step
\* of the job, succeeding or failing, changes the code or the body sent.
C15_ResponseIndependentOfJob ==
  [][\A r \in Reqs :
       /\ req'[r].genCalls > 0 => req[r].pc = "done"
       /\ req'[r].jpc \notin {"none", "mirrorProcessing"} => req[r].pc = "done"
       /\ req[r].pc = "done" =>
            /\ req'[r].pc = "done"
            /\ req'[r].code = req[r].code
            /\ req'[r].body = req[r].body]_vars

\* A request answered 202 while the generator call of its job is in flight, and
\* in the same state an answered request whose job has failed.
C15_Witness ==
  /\ \E r \in Reqs :
       req[r].pc = "done" /\ req[r].code = 202 /\ req[r].jpc = "generate" /\ req[r].genCalls = 0
  /\ \E r \in Reqs : req[r].pc = "done" /\ req[r].code = 202 /\ req[r].jpc = "failed"

\* C16: a request whose body lacks one of the five key fields (absent or empty)
\* is answered 400 and nothing else: it reads and writes no store, mirrors
\* nothing, launches no job and calls no generator.
C16_ValidationBeforeSideEffects ==
  [][\A r \in Reqs :
       /\ (req'[r].pc # "idle" /\ \E f \in KeyFields : req'[r].key[f] = "") =>
            /\ req'[r].pc = "rejected" /\ req'[r].code = 400
            /\ req'[r].jpc = "none" /\ req'[r].genCalls = 0 /\ req'[r].launched = 0
            /\ ~req'[r].wrote /\ req'[r].existing = NoExisting
            /\ req'[r].key \notin DOMAIN store'
       /\ (req[r].pc = "idle" /\ req'[r].pc = "rejected") =>
            store' = store /\ mirror' = mirror /\ lastWrite' = lastWrite
       /\ req[r].pc = "rejected" => req'[r] = req[r]]_vars

\* A request rejected for a missing key field while the table holds a row
\* written for an earlier request.
C16_Witness ==
  \E r \in Reqs :
    /\ req[r].pc = "rejected" /\ req[r].code = 400
    /\ \E f \in KeyFields : req[r].key[f] = ""
    /\ DOMAIN store # {}

\* No request and no job is under way.
atRest ==
  \A r \in Reqs :
    req[r].pc \in {"idle", "done", "rejected"} /\ req[r].jpc \in {"none", "done", "failed"}

\* Two Regeneration Jobs have run to ready one after the other for the same key
\* and composite id, no collaborator call failing.
ranTwice ==
  /\ env.serial /\ env.fixed /\ env.faults = {} /\ atRest
  /\ req["r1"].jpc = "done" /\ req["r2"].jpc = "done"
  /\ req["r2"].key = req["r1"].key /\ req["r2"].docId = req["r1"].docId

\* C17: after two Regeneration Jobs run in sequence for the same key with a
\* deterministic generator, the table holds one row for the key, and its content
\* fields and status are those the second request found, that is those the
\* first run had left; only updated_at and last_updated may differ.
C17_Idempotent ==
  ranTwice =>
    LET k == req["r2"].key
        after1 == req["r2"].existing IN
    /\ DOMAIN store = {k}
    /\ after1.found
    /\ store[k].visa_description = after1.visa_description
    /\ store[k].res_nat_dest_cat_type = after1.res_nat_dest_cat_type
    /\ store[k].status = after1.status
    /\ store[k].status = "ready"

\* Two runs that stored a description, the second one later than the first.
C17_Witness ==
  /\ ranTwice
  /\ store[req["r2"].key].visa_description = "desc"
  /\ store[req["r2"].key].last_updated > req["r2"].existing.last_updated

\* C18: after a request for a key with no record, if the Content Generator call
\* succeeds and no mirror write (nor any other collaborator call) fails, the
\* mirror document of the request's composite id eventually has status ready and
\* a non-null visa_description.
C18_MirrorEventuallyReady ==
  (/\ env.faults = {} /\ parsed(env.first).ok
   /\ req["r1"].pc = "done" /\ req["r1"].nextStatus = "queued")
    ~> (/\ req["r1"].docId \in DocIds
        /\ mirror[req["r1"].docId].status = "ready"
        /\ mirror[req["r1"].docId].visa_description # NULL)

\* C19: once a Regeneration Job has settled the record of a key at ready, a
\* later request for that key and composite id inside the 30-day window and
\* without force_refresh is fresh: it is answered 200, launches no job and
\* calls no generator (no collaborator call failing).
C19_ReadyThenFresh ==
  (/\ env.serial /\ env.faults = {}
   /\ req["r1"].jpc = "done"
   /\ req["r2"].pc \in {"mirror", "upsert", "respond", "done"}
   /\ req["r2"].docId = req["r1"].docId
   /\ ~req["r2"].force_refresh /\ req["r2"].inWindow /\ req["r2"].existing.status = "ready")
    => /\ req["r2"].fresh /\ req["r2"].nextStatus = "ready"
       /\ req["r2"].genCalls = 0 /\ req["r2"].jpc = "none"
       /\ req["r2"].pc = "done" => req["r2"].code = 200

\* C20: a run triggered through POST /repopulate is under way only for a request
\* whose x-cron-secret header equals the configured secret, and never for a
\* request that carries no such header.
C20_RepopulateNeedsSecret ==
  (bulk.trigger = "http" /\ bulk.pc \notin {"idle", "unauthorized"}) =>
    bulk.header = env.secret /\ bulk.header # Undefined

\* C21: the errors list of a bulk summary never has more entries than the
\* preview bound, however many jobs failed, while failed counts every failed job.
C21_ErrorsPreviewBounded ==
  bulk.pc = "done" =>
    /\ Len(bulk.summary.errors) <= ErrorPreview
    /\ bulk.summary.failed =
         Cardinality({i \in 1..Len(bulk.combos) : bulk.jst[i] = "rejected"})

\* C22: a bulk run fails as a whole exactly when its stale-row query failed, and
\* then it has launched no job and written nothing; a run in which jobs were
\* rejected goes on and ends with its summary.
C22_RunFailsIffQueryFails ==
  /\ bulk.pc = "failed" <=> bulk.queryErr
  /\ bulk.pc = "failed" =>
       /\ bulk.combos = <<>> /\ bulk.launched = <<>> /\ bulk.active = 0
       /\ lastWrite = "none"
       /\ \A d \in DocIds : mirror[d] = NoDoc
  /\ (\E i \in 1..Len(bulk.combos) : bulk.jst[i] \in {"mirrorError", "rejected"})
       => bulk.pc \in {"running", "done"}

\* A run that failed at its query while the table held stale rows to regenerate.
C22_Witness ==
  /\ bulk.pc = "failed" /\ bulk.queryErr
  /\ staleKeys(store, DefaultDays) # {}

\* The job of request r has been handed, by its first or by its refinement
\* call, a reply that OutputSchema.parse rejects (deterministic generator).
invalid(o) == o.ok /\ ~parse(o.payload).ok
gotInvalidFirst(r) == env.fixed /\ req[r].genCalls >= 1 /\ invalid(env.first)
gotInvalidRefine(r) == env.fixed /\ req[r].genCalls >= 2 /\ invalid(env.refine)

\* No request has arrived after request r.
latest(r) == r = "r2" \/ req["r2"].pc = "idle"

\* The job of request r is on its failure path, has stored no content, and once
\* it has finished the row of its key reads error (the Record Store accepting
\* the update) until a later request arrives.
onFailurePath(r) ==
  /\ req[r].jpc \in {"mirrorError", "storeError", "failed"}
  /\ ~req[r].wrote
  /\ (req[r].jpc = "failed" /\ "store" \notin env.faults /\ latest(r)) =>
       /\ req[r].key \in DOMAIN store
       /\ store[req[r].key].status = "error"

C24_MirrorPayloadBeforeReadyUpsert ==
  [][\A r \in Reqs :
       /\ req'[r].jpc = "mirrorPayload" => ~req'[r].wrote
       /\ (req[r].jpc = "upsert" /\ ~req[r].wrote /\ req'[r].wrote) =>
            /\ store'[req[r].key].status = "ready"
            /\ store'[req[r].key].visa_description = req[r].payload.visa_description
            /\ store'[req[r].key].last_updated = now]_vars

\* C25: every job of a bulk run leaves the row of its key at status ready if it
\* succeeded and at status error if it failed, whatever the row's status was.
C25_BulkJobSettlesStatus ==
  \A i \in 1..Len(bulk.combos) :
    /\ bulk.jst[i] = "fulfilled" => store[bulk.combos[i].key].status = "ready"
    /\ bulk.jst[i] = "rejected" => store[bulk.combos[i].key].status = "error"

\* C26: isFresh(last_updated, days) holds exactly when now - last_updated is
\* strictly less than days * 86400 seconds (days = 30 by default): a record aged
\* exactly the threshold is not fresh, and a record without last_updated is not
\* fresh, nor is it treated as fresh by the Request Coordinator.
C26_IsFreshStrict ==
  /\ \A k \in DOMAIN store : \A days \in {1, DefaultDays} :
       LET t == store[k].last_updated IN
       /\ t # NoTime => (isFresh(t, days) <=> now - t < days * 86400)
       /\ (t # NoTime /\ now - t = days * 86400) => ~isFresh(t, days)
       /\ t = NoTime => ~isFresh(t, days)
  /\ \A r \in Decided :
       LET t == req[r].existing.last_updated IN
       /\ req[r].fresh => t # NoTime /\ req[r].nowISO - t < 30 * 86400
       /\ (req[r].complete /\ ~req[r].force_refresh /\ t # NoTime
             /\ req[r].nowISO - t < 30 * 86400 /\ now = req[r].nowISO) => req[r].fresh

\* A request that found a complete record aged exactly 30 days and did not treat
\* it as fresh.
C26_Witness ==
  \E r \in Decided :
    /\ req[r].existing.found /\ req[r].complete /\ ~req[r].force_refresh
    /\ req[r].existing.last_updated # NoTime
    /\ req[r].nowISO - req[r].existing.last_updated = 30 * 86400
    /\ ~req[r].fresh /\ req[r].nextStatus = "refreshing"

\* The requests that have issued a mirror write.
Mirrored == {r \in Reqs : req[r].pc \in {"upsert", "respond", "done"}}

\* C27: the mirror document a request writes is a function of its Request Key:
\* requests with the same five key fields write the same document, requests
\* with different keys write different documents.
C27_DocIdFunctionOfKey ==
  \A r, o \in Mirrored :
    (req[r].key = req[o].key) <=> (req[r].docId = req[o].docId)

\* C28: within a job, the mirror write of processing is issued before the store
\* write of processing and the mirror write of error before the store write of
\* error: the store write is reached only from the mirror write of the same
\* status, and when it is made the mirror document (mirror writes landing, no
\* other request under way) already reads that status.
C28_MirrorBeforeStoreInJob ==
  [][\A r \in Reqs :
       /\ (req'[r].jpc = "storeProcessing" /\ req[r].jpc # "storeProcessing") =>
            req[r].jpc = "mirrorProcessing" /\ store' = store
       /\ (req'[r].jpc = "storeError" /\ req[r].jpc # "storeError") =>
            req[r].jpc = "mirrorError" /\ store' = store
       /\ (req[r].jpc = "storeProcessing" /\ req'[r].jpc # "storeProcessing") =>
            /\ mirror' = mirror
            /\ "mirror" \notin env.faults => mirror[req[r].docId].status = "processing"
            /\ "store" \notin env.faults => store'[req[r].key].status = "processing"
       /\ (req[r].jpc = "storeError" /\ req'[r].jpc # "storeError") =>
            /\ mirror' = mirror
            /\ "mirror" \notin env.faults => mirror[req[r].docId].status = "error"
            /\ "store" \notin env.faults => store'[req[r].key].status = "error"]_vars

\* A job that went through both transitions: it failed after its processing
\* writes, and the mirror document and the row both read error.
C28_Witness ==
  \E r \in Reqs :
    /\ env.faults = {} /\ req[r].jpc = "failed" /\ req[r].genCalls > 0
    /\ latest(r)
    /\ "processing" \in held[req[r].key]
    /\ mirror[req[r].docId].status = "error"
    /\ store[req[r].key].status = "error"

\* C29: the Request Coordinator writes its placeholder to the Record Store
\* before it mirrors the status: when the mirror write is issued the row of the
\* key exists, and the placeholder write is not what follows the mirror write.
C29_PlaceholderBeforeMirror ==
  [][\A r \in Reqs :
       (req[r].pc = "mirror" /\ req'[r].pc # "mirror") =>
         /\ req[r].key \in DOMAIN store
         /\ req'[r].pc # "upsert"]_vars

\* C30: every Regeneration Job that has been launched eventually writes status
\* ready or status error to the Record Store (the generator call returning or
\* failing); stated for the job of a bulk run over one stale row.
C30_LaunchedJobSettlesStatus ==
  (/\ bulk.pc = "running" /\ Len(bulk.launched) = 1 /\ bulk.launched[1] = 1)
    ~> (lastWrite \in {"ready", "error"})

\* C31: a job one of whose Record Store writes failed is treated as failed: it
\* ends on its failure path and does not leave the mirror document at ready
\* (mirror writes landing, no later request under way).
C31_StoreWriteFailureFailsJob ==
  \A r \in Reqs :
    (/\ req[r].updateErr /\ req[r].jpc \in {"done", "failed"}
     /\ latest(r) /\ "mirror" \notin env.faults)
      => /\ req[r].jpc = "failed"
         /\ mirror[req[r].docId].status # "ready"

\* C32: a request whose lookup failed with a store error is answered with
\* that error and is not handled as "no record exists": it writes no queued
\* placeholder and launches no job.
C32_LookupFailureSurfaced ==
  \A r \in Reqs :
    (req[r].lookupErr /\ req[r].pc \in {"mirror", "upsert", "respond", "done"}) =>
      /\ req[r].nextStatus # "queued"
      /\ req[r].launched = 0 /\ req[r].jpc = "none"
      /\ req[r].pc = "done" => req[r].code >= 500

C34_StartInSubmissionOrder ==
  bulk.pc = "running" =>
    \A i, j \in 1..Len(bulk.combos) :
      (i < j /\ bulk.launched[j] > 0) => i \notin waiting

\* Three jobs under a cap of one: the first has settled, the second, which had
\* been queued, is running and the third is still in the queue.
C34_Witness ==
  /\ bulk.pc = "running" /\ bulk.variant = "repopulate"
  /\ bulk.concurrency = 1 /\ Len(bulk.combos) = 3
  /\ 1 \in settled /\ 2 \in inFlight
  /\ bulk.jst[3] = "queued" /\ bulk.q = <<3>>

\* C35: once every request and every Regeneration Job for a key has finished,
\* no mirror or store write having failed, the status of the mirror document
\* equals the status of the row, two concurrent jobs with different outcomes
\* included.
C35_MirrorMatchesStoreAtRest ==
  (atRest /\ env.faults = {}) =>
    \A r \in Reqs :
      (/\ req[r].pc = "done"
       /\ req[r].key \in DOMAIN store
       /\ \A o \in Reqs \ {r} :
            req[o].pc = "done" => (req[o].key = req[r].key /\ req[o].docId = req[r].docId))
        => mirror[req[r].docId].status = store[req[r].key].status

\* C36: under any interleaving of concurrent requests and jobs for a key, a row
\* that has held status ready is never set back to status queued.
C36_ReadyNeverBackToQueued ==
  \A k \in DOMAIN store : "ready" \in held[k] => store[k].status # "queued"

\* C37: a row whose status was set to ready by a Regeneration Job is complete:
\* its visa_description is non-null.
C37_ReadyRowIsComplete ==
  \A r \in Reqs :
    (/\ req[r].jpc = "done" /\ ~req[r].updateErr /\ latest(r)
     /\ lastWrite = "ready" /\ store[req[r].key].status = "ready")
      => store[req[r].key].visa_description # NULL

\* C38: a bulk run over a non-empty set of stale rows terminates with a summary
\* for every concurrency the trigger accepts; here, for zero and negative ones.
C38_RunTerminatesForAnyConcurrency ==
  (bulk.pc = "running" /\ bulk.combos # <<>> /\ bulk.concurrency <= 0)
    ~> (bulk.pc = "done")

\* C39: for the same threshold and the same instant, a row with a last_updated
\* is fresh according to isFresh exactly when the stale-row query does not
\* select it, a row aged exactly the threshold included.
C39_FreshIffNotStale ==
  \A k \in DOMAIN store :
    store[k].last_updated # NoTime =>
      (isFresh(store[k].last_updated, DefaultDays) <=> k \notin staleKeys(store, DefaultDays))

\* C40: the deduplication key is injective on Request Keys: rows whose key
\* fields differ in at least one field are never merged into one job, so a run
\* has one job per distinct Request Key of the query result, for field values
\* that contain "|" as for any other.
C40_DedupeKeyInjective ==
  bulk.pc \in {"running", "done"} => Len(bulk.combos) = bulk.distinct

====
